---------------------------- MODULE Spec2Model ----------------------------
(***************************************************************************)
(* A model of the batch image compressor: the command-line orchestrator    *)
(* (image_compressor.py) and the Tk front end (image_compressor_gui.py).   *)
(* The imaging library is abstracted: a file's content is a record saying  *)
(* how the library reacts to it (decodes, loads, encodes) and how many     *)
(* bytes it has.  The file system is a function from paths to contents     *)
(* plus the set of directories that exist.                                 *)
(***************************************************************************)
EXTENDS Integers, Sequences, FiniteSets, Bags, TLC

VARIABLES
    host,        \* "cli" or "gui": which program is running
    args,        \* the parsed command line (cli)
    fs,          \* the files: path -> content, DOMAIN fs = the files that exist
    dirs,        \* the directories that exist
    mainPc,      \* where main() is (cli)
    tasks,       \* main's task list (cli)
    job,         \* per task: the state of its compress_image call (cli)
    emitted,     \* the task indices whose result main's loop has received, in order
    stdout,      \* the lines printed so far
    envLeft,     \* how many more files the environment may delete
    hist,        \* history of the run (not read by the program)
    shadow,      \* the same run with the jobs whose input was missing removed
    file_list,   \* ImageCompressorApp.file_list (gui)
    progress,    \* the progress bar: [value, maximum] (gui)
    log,         \* the log panel: per run, the lines it appended, in order (gui)
    runs,        \* the run_compression threads started so far (gui)
    uiLeft       \* how many more buttons may be pressed (gui)

vars == <<host, args, fs, dirs, mainPc, tasks, job, emitted, stdout, envLeft,
          hist, shadow, file_list, progress, log, runs, uiLeft>>

cliVars == <<args, mainPc, tasks, job, emitted, stdout, shadow>>
guiVars == <<file_list, progress, log, runs, uiLeft>>

---------------------------------------------------------------------------
(* Bounds *)

MaxFiles == 2      \* files in the input directory / entries of the GUI list
MaxEnv == 1        \* files the environment deletes during a run
MaxRuns == 2       \* presses of Start Compression in the GUI
MaxUi == 2         \* presses of Add Files, Add Folder and Clear List

---------------------------------------------------------------------------
(* Paths and contents *)

KiB == 1024

Path(d, s, e) == [dir |-> d, stem |-> s, ext |-> e]

Min(a, b) == IF a < b THEN a ELSE b

\* str.lower() on the extensions that occur
Lower(e) == IF e = "PNG" THEN "png" ELSE e

\* filename.lower().endswith(('.png', '.jpg', '.jpeg', '.ppm'))
AllowList == {"png", "jpg", "jpeg", "ppm"}
Allowed(p) == Lower(p.ext) \in AllowList

\* os.path.basename
Basename(p) == <<p.stem, p.ext>>

\* The image files a directory may hold, and a text file it always holds.
Names == { <<"a", "png">>, <<"a", "jpg">>, <<"b", "PNG">> }
Readme == <<"n", "txt">>

Img(k, w, b) == [kind |-> k, w |-> w, bytes |-> b]

\* What each name holds when undamaged: two ordinary images of different
\* sizes, a one-pixel image, and a text file.
Pristine(n) ==
    CASE n = <<"a", "png">> -> Img("img", 64, 2 * KiB * KiB)
      [] n = <<"a", "jpg">> -> Img("img", 64, 300 * KiB)
      [] n = <<"b", "PNG">> -> Img("img", 1, 2 * KiB)
      [] OTHER -> Img("corrupt", 0, 10)

\* The ways a file can be damaged: undecodable, truncated after its header
\* (decodes lazily, fails when the pixels are loaded), or of a pixel mode the
\* lossy encoder refuses.
Damages == {"corrupt", "trunc", "oddmode"}

Exists(f, p) == p \in DOMAIN f
WriteFile(f, p, c) == [q \in DOMAIN f \cup {p} |-> IF q = p THEN c ELSE f[q]]
DeleteFile(f, p) == [q \in DOMAIN f \ {p} |-> f[q]]

\* get_file_size: the size in hundredths of a KB or of an MB
Hundredths(bytes, unit) == (2 * 100 * bytes + unit) \div (2 * unit)
get_file_size(bytes) ==
    IF bytes < KiB * KiB
    THEN <<Hundredths(bytes, KiB), "KB">>
    ELSE <<Hundredths(bytes, KiB * KiB), "MB">>

\* The configuration bundles tried: strip_exif, --resize, --max-dim
Configs == { [strip |-> FALSE, pct |-> 0, maxdim |-> 0],
             [strip |-> TRUE, pct |-> 50, maxdim |-> 0],
             [strip |-> FALSE, pct |-> 0, maxdim |-> 32] }

---------------------------------------------------------------------------
(* compress_image, one stage at a time *)

None == [tag |-> "Skipped"]
Failed(name, cause) == [tag |-> "Failed", name |-> name, cause |-> cause]
Success(iname, isize, oname, osize) ==
    [tag |-> "Success", input |-> iname, isize |-> isize,
     output |-> oname, osize |-> osize]

NoImg == Img("none", 0, 0)
NewJob == [pc |-> "check", img |-> NoImg, osz |-> <<0, "KB">>, res |-> None]

\* The existence check of line 21 never guarded: the job reads a missing file.
InputMissingUnchecked(f, p) == FALSE

\* line 21: not input_path or not os.path.exists(input_path)
InputMissing(f, p) == ~Exists(f, p)

\* The try block opened after the original size is read.
GuardedLate(stage) == stage # "size"

\* lines 25-67: every stage runs inside the try block
Guarded(stage) == TRUE

\* The outcome of a stage that raised: caught (lines 66-67) or not.
Raise(st, task, stage) ==
    IF Guarded(stage)
    THEN [st EXCEPT !.pc = "done", !.res = Failed(Basename(task.input), stage)]
    ELSE [st EXCEPT !.pc = "raised"]

\* lines 26-43: original size, decode, strip, resize
ReadStage(st, task, f) ==
    LET c == f[task.input]
        cfg == task.cfg
        nw == (c.w * cfg.pct) \div 100
    IN  IF ~Exists(f, task.input) THEN Raise(st, task, "size")
        ELSE IF c.kind = "corrupt" THEN Raise(st, task, "decode")
        ELSE IF cfg.strip /\ c.kind = "trunc" THEN Raise(st, task, "strip")
        ELSE IF cfg.pct # 0 /\ (c.kind = "trunc" \/ nw = 0)
             THEN Raise(st, task, "resize")
        ELSE IF cfg.pct = 0 /\ cfg.maxdim # 0 /\ c.kind = "trunc"
             THEN Raise(st, task, "resize")
        ELSE [st EXCEPT
                !.pc = "write",
                !.osz = get_file_size(c.bytes),
                !.img = IF cfg.pct # 0
                        THEN Img(c.kind, nw, (((c.bytes * cfg.pct) \div 100) * cfg.pct) \div 100)
                        ELSE IF cfg.maxdim # 0
                        THEN Img(c.kind, Min(c.w, cfg.maxdim),
                                 IF c.w > cfg.maxdim THEN c.bytes \div 4 ELSE c.bytes)
                        ELSE c]

\* What the encoder writes for an image.
Encoded(img, use_webp) ==
    Img("img", img.w, IF use_webp THEN img.bytes \div 4 ELSE img.bytes \div 2)

\* lines 46-48: if not os.path.exists(output_dir): os.makedirs(output_dir)
WorkerMakesDir(d, ds) == d \notin ds

\* lines 45-61: ensure the output directory, then encode and save.
\* The result is [st, fs, dirs, made]: made is the directory created, or "-".
WriteStage(st, task, f, ds) ==
    LET d == task.output.dir
        mk == WorkerMakesDir(d, ds)
        ds2 == IF mk /\ d # "" THEN ds \cup {d} ELSE ds
        made == IF mk /\ d # "" THEN d ELSE "-"
    IN  IF mk /\ d = ""
        THEN [st |-> Raise(st, task, "mkdir"), fs |-> f, dirs |-> ds, made |-> "-"]
        ELSE IF \/ st.img.kind = "trunc"
                \/ (task.use_webp /\ st.img.kind = "oddmode")
                \/ d \notin ds2
        THEN [st |-> Raise(st, task, "encode"), fs |-> f, dirs |-> ds2, made |-> made]
        ELSE [st |-> [st EXCEPT !.pc = "size"],
              fs |-> WriteFile(f, task.output, Encoded(st.img, task.use_webp)),
              dirs |-> ds2, made |-> made]

\* lines 63-64: the compressed size and the success line
SizeStage(st, task, f) ==
    IF ~Exists(f, task.output) THEN Raise(st, task, "outsize")
    ELSE [st EXCEPT
            !.pc = "done",
            !.res = Success(Basename(task.input), st.osz, Basename(task.output),
                            get_file_size(f[task.output].bytes))]

\* One stage of compress_image on the file system <<f, ds>>.
StepJob(st, task, f, ds) ==
    CASE st.pc = "check" ->
            [st |-> IF InputMissing(f, task.input)
                    THEN [st EXCEPT !.pc = "done", !.res = None]
                    ELSE [st EXCEPT !.pc = "read"],
             fs |-> f, dirs |-> ds, made |-> "-"]
      [] st.pc = "read" ->
            [st |-> ReadStage(st, task, f), fs |-> f, dirs |-> ds, made |-> "-"]
      [] st.pc = "write" -> WriteStage(st, task, f, ds)
      [] st.pc = "size" ->
            [st |-> SizeStage(st, task, f), fs |-> f, dirs |-> ds, made |-> "-"]
      [] OTHER -> [st |-> st, fs |-> f, dirs |-> ds, made |-> "-"]

Finished(st) == st.pc \in {"done", "raised"}


\* compress_image run to its end on <<f, ds>>: [st, fs, dirs].
RECURSIVE compress_image(_, _, _, _)
compress_image(st, task, f, ds) ==
    IF Finished(st) THEN [st |-> st, fs |-> f, dirs |-> ds]
    ELSE LET r == StepJob(st, task, f, ds)
         IN  compress_image(r.st, task, r.fs, r.dirs)

---------------------------------------------------------------------------
(* main() of the command-line program *)

InDir == Path("", "in", "")
OutDir == Path("", "out", "")

\* os.path.isdir for the paths that name directories
IsDir(p, ds) == p.dir = "" /\ p.ext = "" /\ p.stem \in ds

\* os.path.join(directory, filename)
Join(d, n) == Path(d.stem, n[1], n[2])

\* os.listdir(input_path): the names of the files of the directory
ListDir(f, d) == { Basename(p) : p \in {q \in DOMAIN f : q.dir = d.stem} }

\* The orders in which a listing may come back.
Orders(S) ==
    { s \in [1..Cardinality(S) -> S] : \A i, j \in DOMAIN s : i # j => s[i] # s[j] }

Task(inp, out, a) ==
    [input |-> inp, output |-> out, use_webp |-> ~a.no_webp, cfg |-> a.cfg]

\* line 138: os.path.splitext(filename)[0] + ('.webp' if not args.no_webp else '.png')
OutName(n, a) == <<n[1], IF ~a.no_webp THEN "webp" ELSE "png">>

\* lines 135-139: one task per listed file with an allow-listed extension
DirTasks(listing, a) ==
    LET keep == SelectSeq(listing, LAMBDA n : Allowed(Join(a.input, n)))
    IN  [i \in 1..Len(keep) |->
            Task(Join(a.input, keep[i]), Join(a.output, OutName(keep[i], a)), a)]

\* The orchestrator leaves the output directory to the workers.
MainMakesDirNever(a, ds) == FALSE

\* The orchestrator creates the parent of a single file's output too.
MainMakesDirAlways(a, ds) ==
    LET d == IF IsDir(a.input, ds) THEN a.output.stem ELSE a.output.dir
    IN  d # "" /\ d \notin ds

\* lines 132-134: only for a directory input, and only when it is absent
MainMakesDir(a, ds) == IsDir(a.input, ds) /\ a.output.stem \notin ds

\* The directory main creates (line 134).
MainDir(a, ds) == IF IsDir(a.input, ds) THEN a.output.stem ELSE a.output.dir

\* line 144: len(tasks) > 1 and not args.no_parallel
UsePool(ts, a) == Len(ts) > 1 /\ ~a.no_parallel

Line(type, i, text) == [type |-> type, job |-> i, text |-> text]

Started(jb) == { i \in DOMAIN jb : jb[i].pc # "check" }

\* as_completed: any finished result is received next.
NextResultCompleted(em, jb) ==
    { i \in DOMAIN jb : Finished(jb[i]) /\ \A k \in DOMAIN em : em[k] # i }

\* lines 149-150: executor.map yields the results in the order of the tasks
NextResult(em, jb) ==
    { i \in DOMAIN jb : i = Len(em) + 1 /\ Finished(jb[i]) }

InitHist ==
    [missing |-> {}, finished |-> <<>>, created |-> <<>>, badWrite |-> FALSE,
     fs0 |-> <<>>, dirs0 |-> {}, interfered |-> FALSE, inputMissing |-> FALSE,
     decreased |-> FALSE, writers |-> {}]

GuiIdle ==
    /\ file_list = <<>>
    /\ progress = [value |-> 0, maximum |-> 100]
    /\ log = <<>>
    /\ runs = <<>>
    /\ uiLeft = 0

\* Directory "in" holding the text file and the images L, a.jpg being of
\* kind k.
Files(L, k) ==
    [p \in { Path("in", n[1], n[2]) : n \in L \cup {Readme} } |->
        IF Basename(p) = <<"a", "jpg">>
        THEN Img(k, Pristine(Basename(p)).w, Pristine(Basename(p)).bytes)
        ELSE Pristine(Basename(p))]

\* The files present at the start: the text file and at most MaxFiles images
\* in directory "in"; a.jpg may be damaged.
StartFiles ==
    { Files(L, k) : L \in { S \in SUBSET Names : Cardinality(S) <= MaxFiles },
                    k \in Damages \cup {"img"} }

\* The same for the front end: as many images as the bound allows.
GuiStartFiles ==
    { Files(L, k) : L \in { S \in SUBSET Names : Cardinality(S) = Min(MaxFiles, 3)
                                                  /\ <<"a", "jpg">> \in S
                                                  /\ (MaxFiles > 1 => <<"a", "png">> \in S) },
                    k \in Damages \cup {"img"} }

InitCLI ==
    /\ host = "cli"
    /\ dirs = {"in"}
    /\ \E io \in { <<InDir, OutDir>>, <<InDir, InDir>>,
                   <<Path("in", "a", "png"), Path("out", "o", "webp")>>,
                   <<Path("in", "a", "png"), Path("", "o", "webp")>> },
          nw \in BOOLEAN, np \in BOOLEAN, c \in Configs :
          /\ io[1] # InDir => ~np
          /\ args = [input |-> io[1], output |-> io[2], no_webp |-> nw,
                     no_parallel |-> np, cfg |-> c]
          /\ fs \in IF io[1] = InDir THEN StartFiles
                     ELSE { f \in StartFiles :
                              DOMAIN f \subseteq {io[1], Path("in", "n", "txt")} }
    /\ mainPc = "build"
    /\ tasks = <<>>
    /\ job = <<>>
    /\ emitted = <<>>
    /\ stdout = <<>>
    /\ envLeft = MaxEnv
    /\ hist = InitHist
    /\ shadow = [fs |-> <<>>, dirs |-> {}, job |-> <<>>]
    /\ GuiIdle

\* lines 131-147: build the task list, create the output directory of a
\* directory run, announce the run and choose the execution path.
Build ==
    /\ host = "cli" /\ mainPc = "build"
    /\ LET mk == MainMakesDir(args, dirs)
           d == MainDir(args, dirs)
           ds == IF mk THEN dirs \cup {d} ELSE dirs
       IN  /\ dirs' = ds
           /\ \E listing \in Orders(ListDir(fs, args.input)) :
                tasks' = IF IsDir(args.input, dirs)
                         THEN DirTasks(listing, args)
                         ELSE <<Task(args.input, args.output, args)>>
           /\ job' = [i \in DOMAIN tasks' |-> NewJob]
           /\ mainPc' = IF UsePool(tasks', args) THEN "pool" ELSE "seq"
           /\ stdout' = <<Line("starting", 0, Len(tasks'))>>
                        \o (IF UsePool(tasks', args)
                            THEN <<Line("cores", 0, 0)>> ELSE <<>>)
           /\ shadow' = [fs |-> fs, dirs |-> ds, job |-> job']
           /\ hist' = [hist EXCEPT
                         !.created = IF mk THEN <<[dir |-> d, by |-> 0]>> ELSE <<>>,
                         !.fs0 = fs, !.dirs0 = ds,
                         !.inputMissing = ~IsDir(args.input, dirs)
                                          /\ ~Exists(fs, args.input)]
    /\ UNCHANGED <<host, args, fs, emitted, envLeft>>
    /\ UNCHANGED guiVars

\* One stage of task i's compress_image call, in a worker or in main.
Work(i) ==
    LET r == StepJob(job[i], tasks[i], fs, dirs)
        first == job[i].pc = "check"
        gone == i \in hist.missing \/ (first /\ ~Exists(fs, tasks[i].input))
        sr == StepJob(shadow.job[i], tasks[i], shadow.fs, shadow.dirs)
    IN  /\ job' = [job EXCEPT ![i] = r.st]
        /\ fs' = r.fs
        /\ dirs' = r.dirs
        /\ stdout' = IF first /\ r.st.pc = "done"
                     THEN Append(stdout, Line("skip", i, tasks[i].input))
                     ELSE stdout
        /\ shadow' = IF gone THEN shadow
                     ELSE [fs |-> sr.fs, dirs |-> sr.dirs,
                           job |-> [shadow.job EXCEPT ![i] = sr.st]]
        /\ hist' = [hist EXCEPT
                      !.missing = IF gone THEN @ \cup {i} ELSE @,
                      !.finished = IF Finished(r.st) THEN Append(@, i) ELSE @,
                      !.created = IF r.made # "-"
                                  THEN Append(@, [dir |-> r.made, by |-> i]) ELSE @,
                      !.badWrite = @ \/ (r.fs # fs /\ tasks[i].output.dir \notin r.dirs)]
        /\ UNCHANGED <<host, args, mainPc, tasks, emitted, envLeft>>
        /\ UNCHANGED guiVars

\* lines 146-149: the pool's workers take the tasks in submission order.
\* The machine has at least as many cores as the batch has tasks, so a
\* worker is always free: every schedule of a smaller pool is one of these.
PoolCanStep(i) ==
    /\ i \in DOMAIN job /\ ~Finished(job[i])
    /\ job[i].pc = "check" => \A k \in 1..(i - 1) : k \in Started(job)

\* lines 155-156: main runs the tasks itself, one after the other.
SeqCanStep(i) ==
    i \in DOMAIN job /\ ~Finished(job[i]) /\ i = Len(emitted) + 1

\* A pool worker runs the next stage of task i.
PoolWork(i) ==
    /\ host = "cli" /\ mainPc = "pool"
    /\ PoolCanStep(i)
    /\ Work(i)

\* main runs the next stage of the current task.
SeqWork ==
    /\ host = "cli" /\ mainPc = "seq"
    /\ \E i \in DOMAIN job : SeqCanStep(i) /\ Work(i)

\* The result printed whatever it is.
PrintableAlways(res) == TRUE

\* lines 151 and 157: if result
Printable(res) == res # None

\* main receives task i's result: prints it if it is not None, dies if the
\* call raised.
Receive(i) ==
    /\ IF job[i].pc = "raised"
       THEN mainPc' = "crashed" /\ UNCHANGED <<emitted, stdout>>
       ELSE /\ emitted' = Append(emitted, i)
            /\ stdout' = IF Printable(job[i].res)
                         THEN Append(stdout, Line("result", i, job[i].res))
                         ELSE stdout
            /\ UNCHANGED mainPc
    /\ UNCHANGED <<host, args, fs, dirs, tasks, job, envLeft, hist, shadow>>
    /\ UNCHANGED guiVars

\* lines 150-152
PoolEmit ==
    /\ host = "cli" /\ mainPc = "pool"
    /\ \E i \in NextResult(emitted, job) : Receive(i)

\* lines 157-158
SeqEmit ==
    /\ host = "cli" /\ mainPc = "seq"
    /\ LET i == Len(emitted) + 1
       IN  i \in DOMAIN job /\ Finished(job[i]) /\ Receive(i)

\* line 160
Complete ==
    /\ host = "cli" /\ mainPc \in {"pool", "seq"}
    /\ Len(emitted) = Len(tasks)
    /\ mainPc' = "done"
    /\ stdout' = Append(stdout, Line("complete", 0, 0))
    /\ UNCHANGED <<host, args, fs, dirs, tasks, job, emitted, envLeft, hist, shadow>>
    /\ UNCHANGED guiVars

\* Something outside the program deletes a file that a task is about to
\* read: its input before the existence check or before the read, its output
\* before the size of the result is taken.
EnvDelete(p) ==
    /\ host = "cli" /\ mainPc \in {"pool", "seq"}
    /\ envLeft > 0 /\ p \in DOMAIN fs
    /\ \E i \in DOMAIN tasks :
          /\ IF mainPc = "pool" THEN PoolCanStep(i) ELSE SeqCanStep(i)
          /\ \/ job[i].pc \in {"check", "read"} /\ p = tasks[i].input
             \/ job[i].pc = "size" /\ p = tasks[i].output
    /\ envLeft' = envLeft - 1
    /\ fs' = DeleteFile(fs, p)
    /\ shadow' = [shadow EXCEPT !.fs = DeleteFile(@, p)]
    /\ hist' = IF Started(job) = {}
               THEN [hist EXCEPT !.fs0 = fs']
               ELSE [hist EXCEPT !.interfered = TRUE]
    /\ UNCHANGED <<host, args, dirs, mainPc, tasks, job, emitted, stdout>>
    /\ UNCHANGED guiVars

NextCLI ==
    \/ Build
    \/ \E i \in DOMAIN job : PoolWork(i)
    \/ SeqWork
    \/ PoolEmit
    \/ SeqEmit
    \/ Complete
    \/ \E p \in DOMAIN fs : EnvDelete(p)

SpecCLI == InitCLI /\ [][NextCLI]_vars

\* The sequential loop of lines 155-158 as a function: the results of the
\* tasks from the k-th on, run one after the other on <<f, ds>>.
RECURSIVE SeqResults(_, _, _, _)
SeqResults(ts, k, f, ds) ==
    IF k > Len(ts) THEN <<>>
    ELSE LET r == compress_image(NewJob, ts[k], f, ds)
         IN  IF r.st.pc = "raised" THEN <<>>
             ELSE <<r.st.res>> \o SeqResults(ts, k + 1, r.fs, r.dirs)

---------------------------------------------------------------------------
(* The Tk front end: compress_image_worker and ImageCompressorApp *)

Pending == [tag |-> "Pending"]
GuiSuccess(iname, oname) == [tag |-> "Success", input |-> iname, output |-> oname]

\* lines 27-55 of the front end: every stage runs inside the try block
GuardedWorker(stage) == TRUE

WorkerRaise(task, stage) ==
    IF GuardedWorker(stage) THEN Failed(Basename(task.input), stage)
    ELSE [tag |-> "Raised"]

\* line 25: os.path.join(output_dir, os.path.splitext(base_name)[0] + output_ext)
WorkerOutput(task) ==
    Path(task.outdir, task.input.stem, IF task.use_webp THEN "webp" ELSE "png")

\* lines 20-55: compress_image_worker on <<f, ds>>: [res, fs]
compress_image_worker(task, f, ds) ==
    LET c == f[task.input]
        cfg == task.cfg
        out == WorkerOutput(task)
        resizes == cfg.pct # 0 /\ cfg.pct < 100
        nw == (c.w * cfg.pct) \div 100
        img == IF resizes
               THEN Img(c.kind, nw, (((c.bytes * cfg.pct) \div 100) * cfg.pct) \div 100)
               ELSE IF cfg.maxdim # 0
               THEN Img(c.kind, Min(c.w, cfg.maxdim),
                        IF c.w > cfg.maxdim THEN c.bytes \div 4 ELSE c.bytes)
               ELSE c
        fail(stage) == [res |-> WorkerRaise(task, stage), fs |-> f]
    IN  IF ~Exists(f, task.input) \/ c.kind = "corrupt" THEN fail("decode")
        ELSE IF cfg.strip /\ c.kind = "trunc" THEN fail("strip")
        ELSE IF resizes /\ (c.kind = "trunc" \/ nw = 0) THEN fail("resize")
        ELSE IF ~resizes /\ cfg.maxdim # 0 /\ c.kind = "trunc" THEN fail("resize")
        ELSE IF \/ c.kind = "trunc"
                \/ (task.use_webp /\ c.kind = "oddmode")
                \/ task.outdir \notin ds
             THEN fail("encode")
        ELSE [res |-> GuiSuccess(Basename(task.input), Basename(out)),
              fs |-> WriteFile(f, out, Encoded(img, task.use_webp))]

\* The widget settings tried: Use WebP, Strip EXIF, the resize mode.
Widgets == { [use_webp |-> TRUE, cfg |-> [strip |-> TRUE, pct |-> 0, maxdim |-> 0]],
             [use_webp |-> TRUE, cfg |-> [strip |-> FALSE, pct |-> 50, maxdim |-> 0]],
             [use_webp |-> FALSE, cfg |-> [strip |-> FALSE, pct |-> 0, maxdim |-> 32]] }

\* lines 169-172 and 177-182: append the paths that are not listed yet
RECURSIVE AppendNew(_, _)
AppendNew(list, new) ==
    IF new = <<>> THEN list
    ELSE AppendNew(IF Head(new) \in { list[k] : k \in DOMAIN list }
                   THEN list ELSE Append(list, Head(new)),
                   Tail(new))

\* The thread a call made by run r executes on.  The UI thread is thread 0;
\* run r's thread is thread r.
RunThread(r) == r

\* line 188-192: self.log(message), executed by the thread that calls it
LogLine(msg, k, r) == [msg |-> msg, job |-> k, run |-> r, thread |-> RunThread(r)]

Active(r) == r \in DOMAIN runs /\ runs[r].pc \in {"snapshot", "pool"}

InitGUI ==
    /\ host = "gui"
    /\ fs \in GuiStartFiles
    /\ dirs = {"in", "out"}
    /\ \E w \in Widgets :
          args = [input |-> InDir, output |-> OutDir, no_webp |-> ~w.use_webp,
                  no_parallel |-> FALSE, cfg |-> w.cfg]
    /\ mainPc = "mainloop"
    /\ tasks = <<>>
    /\ job = <<>>
    /\ emitted = <<>>
    /\ stdout = <<>>
    /\ envLeft = 0
    /\ hist = InitHist
    /\ shadow = [fs |-> <<>>, dirs |-> {}, job |-> <<>>]
    /\ file_list = <<>>
    /\ progress = [value |-> 0, maximum |-> 100]
    /\ log = <<>>
    /\ runs = <<>>
    /\ uiLeft = MaxUi

\* The user presses one of the list buttons.
UiEvent ==
    /\ host = "gui" /\ uiLeft > 0
    /\ uiLeft' = uiLeft - 1
    /\ UNCHANGED <<host, fs, dirs, envLeft, hist, progress, log, runs>>
    /\ UNCHANGED cliVars

\* lines 167-172: add_files, the dialog returning the file p
AddFiles(p) ==
    /\ UiEvent
    /\ p \in DOMAIN fs /\ p.dir = "in"
    /\ file_list' = AppendNew(file_list, <<p>>)
    /\ Len(file_list') <= MaxFiles

\* lines 174-182: add_folder on directory "in"
AddFolder ==
    /\ UiEvent
    /\ \E listing \in Orders(ListDir(fs, InDir)) :
          file_list' = AppendNew(file_list,
              LET keep == SelectSeq(listing, LAMBDA n : Allowed(Join(InDir, n)))
              IN  [k \in 1..Len(keep) |-> Join(InDir, keep[k])])

\* lines 184-186: clear_list
ClearList ==
    /\ UiEvent
    /\ file_list' = <<>>

\* lines 194-206: start_compression_thread, the dialog returning "out"
StartCompressionThread ==
    /\ host = "gui" /\ Len(runs) < MaxRuns
    /\ file_list # <<>>
    /\ runs' = Append(runs, [pc |-> "begin", outdir |-> "out", tasks |-> <<>>,
                              res |-> <<>>, n |-> 0])
    /\ log' = Append(log, <<>>)
    /\ UNCHANGED <<host, fs, dirs, envLeft, hist, progress, file_list, uiLeft>>
    /\ UNCHANGED cliVars

SetProgress(r, p) ==
    /\ progress' = p
    /\ hist' = [hist EXCEPT
                  !.writers = @ \cup {RunThread(r)},
                  !.decreased = @ \/ (p.value < progress.value
                                      /\ \E q \in DOMAIN runs : Active(q))]

\* lines 209-211: reset the bar, set its maximum, log the start
RunBegin(r) ==
    /\ host = "gui" /\ r \in DOMAIN runs /\ runs[r].pc = "begin"
    /\ SetProgress(r, [value |-> 0, maximum |-> Len(file_list)])
    /\ log' = [log EXCEPT ![r] = Append(@, LogLine([tag |-> "start"], 0, r))]
    /\ runs' = [runs EXCEPT ![r].pc = "snapshot"]
    /\ UNCHANGED <<host, fs, dirs, envLeft, file_list, uiLeft>>
    /\ UNCHANGED cliVars

\* lines 213-216: read the widgets and build the task list
RunSnapshot(r) ==
    /\ host = "gui" /\ r \in DOMAIN runs /\ runs[r].pc = "snapshot"
    /\ runs' = [runs EXCEPT
                  ![r].pc = "pool",
                  ![r].tasks = [k \in DOMAIN file_list |->
                                  [input |-> file_list[k], outdir |-> runs[r].outdir,
                                   use_webp |-> ~args.no_webp, cfg |-> args.cfg]],
                  ![r].res = [k \in DOMAIN file_list |-> Pending]]
    /\ UNCHANGED <<host, fs, dirs, envLeft, hist, progress, log, file_list, uiLeft>>
    /\ UNCHANGED cliVars

\* lines 218-219: a pool worker runs task k of run r
RunWorker(r, k) ==
    /\ host = "gui" /\ r \in DOMAIN runs /\ runs[r].pc = "pool"
    /\ k \in DOMAIN runs[r].tasks /\ runs[r].res[k] = Pending
    /\ LET w == compress_image_worker(runs[r].tasks[k], fs, dirs)
       IN  /\ fs' = w.fs
           /\ runs' = [runs EXCEPT ![r].res[k] = w.res]
    /\ UNCHANGED <<host, dirs, envLeft, hist, progress, log, file_list, uiLeft>>
    /\ UNCHANGED cliVars

\* lines 219-222: the next result in task order is logged and counted
RunEmit(r) ==
    /\ host = "gui" /\ r \in DOMAIN runs /\ runs[r].pc = "pool"
    /\ LET i == runs[r].n + 1
       IN  /\ i \in DOMAIN runs[r].tasks /\ runs[r].res[i] # Pending
           /\ IF runs[r].res[i].tag = "Raised"
              THEN /\ runs' = [runs EXCEPT ![r].pc = "crashed"]
                   /\ UNCHANGED <<progress, log, hist>>
              ELSE /\ log' = [log EXCEPT ![r] = Append(@, LogLine(runs[r].res[i], i, r))]
                   /\ SetProgress(r, [progress EXCEPT !.value = i])
                   /\ runs' = [runs EXCEPT ![r].n = i]
    /\ UNCHANGED <<host, fs, dirs, envLeft, file_list, uiLeft>>
    /\ UNCHANGED cliVars

\* lines 224-225
RunFinish(r) ==
    /\ host = "gui" /\ r \in DOMAIN runs /\ runs[r].pc = "pool"
    /\ runs[r].n = Len(runs[r].tasks)
    /\ log' = [log EXCEPT ![r] = Append(@, LogLine([tag |-> "complete"], 0, r))]
    /\ runs' = [runs EXCEPT ![r].pc = "done"]
    /\ UNCHANGED <<host, fs, dirs, envLeft, hist, progress, file_list, uiLeft>>
    /\ UNCHANGED cliVars

NextGUI ==
    \/ \E p \in DOMAIN fs : AddFiles(p)
    \/ AddFolder
    \/ ClearList
    \/ StartCompressionThread
    \/ \E r \in DOMAIN runs : RunBegin(r)
    \/ \E r \in DOMAIN runs : RunSnapshot(r)
    \/ \E r \in DOMAIN runs : \E k \in DOMAIN runs[r].tasks : RunWorker(r, k)
    \/ \E r \in DOMAIN runs : RunEmit(r)
    \/ \E r \in DOMAIN runs : RunFinish(r)

SpecGUI == InitGUI /\ [][NextGUI]_vars

Spec == (InitCLI \/ InitGUI) /\ [][NextCLI \/ NextGUI]_vars

---------------------------------------------------------------------------
(* Properties of the command-line program *)

Range(s) == { s[k] : k \in DOMAIN s }
Count(s, x) == Cardinality({ k \in DOMAIN s : s[k] = x })
SameBag(s, t) ==
    Len(s) = Len(t) /\ \A x \in Range(s) \cup Range(t) : Count(s, x) = Count(t, x)
Pos(s, x) == CHOOSE k \in DOMAIN s : s[k] = x
Results == [i \in DOMAIN job |-> job[i].res]
Pooled == host = "cli" /\ mainPc # "build" /\ UsePool(tasks, args)
JobLines(i) ==
    Cardinality({ k \in DOMAIN stdout :
                    stdout[k].job = i /\ stdout[k].type \in {"skip", "result"} })
CompleteLines == { k \in DOMAIN stdout : stdout[k].type = "complete" }
Stages == {"size", "decode", "strip", "resize", "mkdir", "encode", "outsize"}

\* C1: a finished batch of K tasks has K results; a task whose input was
\* missing when it was processed is Skipped; every other task has the
\* Success/Failed result it has in the same run without the skipped tasks.
C1_SkippedIsolated ==
    (host = "cli" /\ mainPc = "done") =>
        /\ Len(emitted) = Len(tasks)
        /\ \A i \in DOMAIN tasks :
              /\ job[i].pc = "done"
              /\ i \in hist.missing => job[i].res = None
              /\ i \notin hist.missing =>
                    /\ job[i].res.tag \in {"Success", "Failed"}
                    /\ job[i].res = shadow.job[i].res

C1_Witness ==
    /\ host = "cli" /\ mainPc = "done" /\ UsePool(tasks, args)
    /\ \E j \in hist.missing : \E i \in DOMAIN tasks :
          i # j /\ job[i].res.tag = "Success"

\* The command-line half of C2.
C2_CLI ==
    host = "cli" =>
        /\ mainPc # "crashed"
        /\ \A i \in DOMAIN job :
              /\ job[i].pc # "raised"
              /\ job[i].res.tag = "Failed" =>
                    /\ job[i].res.name = Basename(tasks[i].input)
                    /\ job[i].res.cause \in Stages
        /\ mainPc = "done" =>
              \A i \in DOMAIN tasks : job[i].pc = "done" /\ i \in Range(emitted)

\* The front end's half of C2.
C2_GUI ==
    host = "gui" =>
        \A r \in DOMAIN runs :
            /\ runs[r].pc # "crashed"
            /\ \A k \in DOMAIN runs[r].res :
                  /\ runs[r].res[k].tag # "Raised"
                  /\ runs[r].res[k].tag = "Failed" =>
                        /\ runs[r].res[k].name = Basename(runs[r].tasks[k].input)
                        /\ runs[r].res[k].cause \in Stages
            /\ runs[r].pc = "done" =>
                  /\ runs[r].n = Len(runs[r].tasks)
                  /\ \A k \in DOMAIN runs[r].res : runs[r].res[k] # Pending

\* C2: no stage's failure escapes the pipeline (compress_image,
\* compress_image_worker): a failed task has a Failed result naming the
\* input's basename and the stage that failed, the orchestrator never dies,
\* and a finished batch has processed every one of its tasks.
C2_NoEscape == C2_CLI /\ C2_GUI

C2_Witness ==
    /\ host = "cli" /\ mainPc = "done" /\ Len(tasks) = 2
    /\ job[1].res.tag = "Failed" /\ job[1].res.cause = "size"
    /\ job[2].res.tag = "Success"

\* The same in the front end: a failed task followed by a successful one.
C2_ReachedGUI ==
    /\ host = "gui"
    /\ \E r \in DOMAIN runs :
          /\ runs[r].pc = "done" /\ Len(runs[r].tasks) = 2
          /\ runs[r].res[1].tag = "Failed" /\ runs[r].res[2].tag = "Success"

\* The command-line half of C3.
C3_CLI ==
    host = "cli" =>
        /\ \A i \in DOMAIN tasks : JobLines(i) <= 1
        /\ Cardinality(CompleteLines) <= 1
        /\ CompleteLines # {} <=> mainPc = "done"
        /\ mainPc = "done" =>
              /\ stdout[Len(stdout)].type = "complete"
              /\ \A i \in DOMAIN tasks : JobLines(i) = 1 /\ Count(emitted, i) = 1
              /\ Len(emitted) = Len(tasks)

RunJobLines(r, k) ==
    Cardinality({ m \in DOMAIN log[r] : log[r][m].job = k /\ log[r][m].msg = runs[r].res[k] })
RunCompleteLines(r) == { m \in DOMAIN log[r] : log[r][m].msg.tag = "complete" }

\* The front end's half of C3, per run.
C3_GUI ==
    host = "gui" =>
        \A r \in DOMAIN runs :
            /\ \A k \in DOMAIN runs[r].tasks : RunJobLines(r, k) <= 1
            /\ Cardinality(RunCompleteLines(r)) <= 1
            /\ RunCompleteLines(r) # {} <=> runs[r].pc = "done"
            /\ runs[r].pc = "done" =>
                  /\ log[r][Len(log[r])].msg.tag = "complete"
                  /\ \A k \in DOMAIN runs[r].tasks : RunJobLines(r, k) = 1
                  /\ Len(log[r]) = Len(runs[r].tasks) + 2

\* C3: every task of a batch gets exactly one reported line, the loop that
\* reports receives exactly K results, and the completion line comes once,
\* last, after all of them, whatever was Skipped or Failed.
C3_OneLinePerJob == C3_CLI /\ C3_GUI

C3_Witness ==
    /\ host = "cli" /\ mainPc = "done" /\ Len(tasks) = 2
    /\ job[1].res = None /\ job[2].res.tag = "Failed"

\* The same in the front end: a finished run of two tasks, one failed.
C3_ReachedGUI ==
    /\ host = "gui"
    /\ \E r \in DOMAIN runs :
          /\ runs[r].pc = "done" /\ Len(runs[r].tasks) = 2
          /\ runs[r].res[2].tag = "Failed"

\* C4: a pooled run that nothing outside disturbed ends with the same
\* results, as a multiset, as the sequential run of the same tasks on the
\* same files.
C4_PoolEqualsSequential ==
    (Pooled /\ mainPc = "done" /\ ~hist.interfered) =>
        SameBag(Results, SeqResults(tasks, 1, hist.fs0, hist.dirs0))

\* C5: no two tasks of a batch share an output path, and no task's output
\* path is another task's input path.
C5_DisjointPaths ==
    host = "cli" =>
        \A i, j \in DOMAIN tasks :
            i # j => /\ tasks[i].output # tasks[j].output
                     /\ tasks[i].output # tasks[j].input

\* C6 as claimed: in the pool, a result that finished earlier is received
\* (and printed) earlier.
C6_CompletionOrder ==
    Pooled =>
        \A a \in Range(emitted) : \A b \in Range(hist.finished) :
            Pos(hist.finished, b) < Pos(hist.finished, a) =>
                b \in Range(emitted) /\ Pos(emitted, b) < Pos(emitted, a)

\* C6 as amended: in the pool, results are received (and printed) in
\* submission order, whatever the order in which the tasks finished.
C6_SubmissionOrder ==
    Pooled =>
        /\ \A k \in DOMAIN emitted : emitted[k] = k
        /\ \A k, m \in DOMAIN stdout :
              (k < m /\ stdout[k].type = "result" /\ stdout[m].type = "result")
                  => stdout[k].job < stdout[m].job

C6_Witness ==
    /\ Pooled /\ Len(tasks) = 2
    /\ hist.finished = <<2, 1>> /\ emitted = <<1, 2>>
    /\ job[1].res # None /\ job[2].res # None

\* C9 as claimed: a run whose input path does not exist stops before any
\* work: no directory is created, no task is dispatched, no result produced.
C9_AbortsOnMissingInput ==
    (host = "cli" /\ hist.inputMissing) =>
        /\ hist.created = <<>>
        /\ Started(job) = {}
        /\ emitted = <<>>

\* C9 as amended: a run whose input path does not exist builds one task,
\* dispatches it, gets Skipped for it and completes; it creates no directory
\* and writes no file.
C9_MissingInputSkipped ==
    (host = "cli" /\ hist.inputMissing) =>
        /\ Len(tasks) = 1 /\ mainPc # "crashed"
        /\ hist.created = <<>> /\ dirs = {"in"} /\ fs = hist.fs0
        /\ job[1].pc \in {"check", "done"}
        /\ job[1].pc = "done" => job[1].res = None
        /\ mainPc = "done" =>
              /\ emitted = <<1>>
              /\ stdout = << Line("starting", 0, 1), Line("skip", 1, args.input),
                             Line("complete", 0, 0) >>

C9_Witness == host = "cli" /\ hist.inputMissing /\ mainPc = "done"

DirRun == IsDir(args.input, {"in"})

\* C10 as claimed: only the orchestrator creates a directory, and a task
\* writes its output only into a directory that exists.
C10_OnlyMainCreates ==
    host = "cli" =>
        /\ \A k \in DOMAIN hist.created : hist.created[k].by = 0
        /\ ~hist.badWrite

\* C10 as amended: at most one directory is created per run.  In a
\* directory run main creates the output directory, before any task runs,
\* and no task creates one.  In a single-file run main creates nothing and
\* the task creates the parent of its output path if it is absent.  A task
\* writes its output only into a directory that exists.
C10_DirectoryCreation ==
    host = "cli" =>
        /\ Len(hist.created) <= 1
        /\ ~hist.badWrite
        /\ DirRun =>
              /\ \A k \in DOMAIN hist.created :
                    hist.created[k] = [dir |-> args.output.stem, by |-> 0]
              /\ mainPc # "build" => args.output.stem \in dirs
        /\ ~DirRun =>
              \A k \in DOMAIN hist.created :
                  hist.created[k] = [dir |-> args.output.dir, by |-> 1]

C10_Witness ==
    /\ host = "cli" /\ DirRun /\ mainPc = "done" /\ Len(tasks) = 2
    /\ hist.created = <<[dir |-> "out", by |-> 0]>>
    /\ \A i \in DOMAIN tasks : job[i].res.tag = "Success"


---------------------------------------------------------------------------
(* Properties of the front end *)

\* C7: while a run is in progress the bar's value never decreases and never
\* exceeds the maximum, the maximum is the number of tasks of the running
\* batch, and a run's results are logged in submission order, one step of
\* the bar each.
C7_ProgressBounded ==
    host = "gui" =>
        /\ ~hist.decreased
        /\ (\E r \in DOMAIN runs : Active(r)) => progress.value <= progress.maximum
        /\ \A r \in DOMAIN runs :
              /\ runs[r].pc = "pool" => progress.maximum = Len(runs[r].tasks)
              /\ \A m \in DOMAIN log[r] :
                    (1 < m /\ m <= runs[r].n + 1) => log[r][m].job = m - 1

\* C8: the batch runs on a thread other than the UI thread (thread 0), and
\* every append to the log panel and every write of the progress bar is
\* executed on the UI thread.
C8_UiThreadOnly ==
    host = "gui" =>
        /\ \A r \in DOMAIN runs : RunThread(r) # 0
        /\ \A r \in DOMAIN log : \A m \in DOMAIN log[r] : log[r][m].thread = 0
        /\ hist.writers \subseteq {0}

=============================================================================
